---- MODULE Spec2Model ----
(***************************************************************************)
(* Grammar analysis and table-driven parsers of dakaizou/compiler:          *)
(* grammar.py (symbols, productions, FIRST/FOLLOW, direct left-recursion    *)
(* removal) and parsers.py (LL(1) table and predictive parser, LR(1)        *)
(* canonical collection, action/goto tables and shift-reduce parser).       *)
(*                                                                         *)
(* Python sets iterate in an order the language does not fix (string       *)
(* hashes are salted per process).  The variable hashOrder stands for that  *)
(* order: "asc" and "desc" enumerate every set along Enum or its reverse;   *)
(* "any" additionally lets the canonical-collection worklist and the        *)
(* per-state symbol set be visited in every order (followed for the         *)
(* grammars of AnyOrderRules).  The last writer of an action cell is always *)
(* chosen among all the items that write it.                                *)
(***************************************************************************)
EXTENDS Integers, Sequences, FiniteSets, TLC

VARIABLES
    grammar,    \* the Grammar object handed to the parsers
    rewrite,    \* what remove_direct_left_recursion did to it, if it was called
    hashOrder,  \* iteration order of Python sets in this process
    pc,         \* position of the driving script
    ll,         \* the LL1Parser object
    lr,         \* the LR1Parser object
    form,       \* sentential form of the derivation that produces the input
    tokens,     \* the token stream, ending in EOF
    run         \* the running parse: cursor, stack, result, outcome

vars == <<grammar, rewrite, hashOrder, pc, ll, lr, form, tokens, run>>

----------------------------------------------------------------------------
(* Bounds *)

\* longest sentential form of a derivation that produces an input
MaxFormLen == 6
\* longest arbitrary token stream (EOF not counted)
MaxTokens == 2

----------------------------------------------------------------------------
(* Generic helpers: Python sets, lists and dicts *)

RECURSIVE Enum(_)
Enum(S) ==
    IF S = {} THEN <<>>
    ELSE LET e == CHOOSE e \in S : TRUE IN <<e>> \o Enum(S \ {e})

RECURSIVE Reverse(_)
Reverse(s) == IF s = <<>> THEN <<>> ELSE Reverse(Tail(s)) \o <<Head(s)>>

Range(s) == {s[i] : i \in DOMAIN s}

\* every enumeration of a set
Perms(S) ==
    {f \in [1..Cardinality(S) -> S] : \A i, j \in DOMAIN f : i # j => f[i] # f[j]}

\* `for x in a_set` under the order ord
Iter(ord, S) == IF ord = "desc" THEN Reverse(Enum(S)) ELSE Enum(S)

\* collections.defaultdict(set): a missing key reads as the empty set
Get(d, k) == IF k \in DOMAIN d THEN d[k] ELSE {}

Put(d, k, v) == [x \in DOMAIN d \cup {k} |-> IF x = k THEN v ELSE d[x]]

SubSeqFrom(s, i) == SubSeq(s, i, Len(s))

----------------------------------------------------------------------------
(* grammar.py: the symbol and production model *)

Terminal(image) == [kind |-> "Terminal", image |-> image]

NonTerminal(image) == [kind |-> "NonTerminal", image |-> image]

IsTerminal(s) == s.kind = "Terminal"

IsNonTerminal(s) == s.kind = "NonTerminal"

EPSILONG == Terminal("<EPSILONG>")

EOF == Terminal("<EOF>")

Production(lhs, rhs) == [lhs |-> lhs, rhs |-> rhs]

LRProduction(lhs, rhs, lookahead, cursor) ==
    [lhs |-> lhs, rhs |-> rhs, lookahead |-> lookahead, cursor |-> cursor]

\* the value None
None == [kind |-> "None", image |-> ""]

is_finished(item) == item.cursor >= Len(item.rhs)

current_symbol(item) == IF is_finished(item) THEN None ELSE item.rhs[item.cursor + 1]

\* LRProduction.p
p_of(item) == Production(item.lhs, item.rhs)

\* parsers.py calls item.get_next() and item.get_beta(); grammar.py holds these
\* accessors as the properties next and beta, which is what the calls are bound to.
get_next(item) ==
    IF item.cursor > Len(item.rhs) THEN None
    ELSE LRProduction(item.lhs, item.rhs, item.lookahead, item.cursor + 1)

get_beta(item) == SubSeqFrom(item.rhs, item.cursor + 2)

----------------------------------------------------------------------------
(* grammar.py: FIRST and FOLLOW *)

RECURSIVE firstLoop(_, _, _, _)
firstLoop(first_for, rhs, i, current_first) ==
    IF i > Len(rhs) \/ EPSILONG \notin current_first THEN current_first
    ELSE firstLoop(first_for, rhs, i + 1,
                   (current_first \ {EPSILONG}) \cup Get(first_for, rhs[i].image))

first(first_for, rhs) ==
    IF Len(rhs) = 0 THEN {}
    ELSE firstLoop(first_for, rhs, 2,
                   Get(first_for, rhs[1].image)
                       \cup (IF IsTerminal(rhs[1]) THEN {rhs[1]} ELSE {}))

\* the keys the maps are read and written under: the image of every symbol
ImagesOf(symbols, start, productions) ==
    {s.image : s \in symbols} \cup {start.image}
        \cup {p.lhs.image : p \in productions}
        \cup UNION {{s.image : s \in Range(p.rhs)} : p \in productions}

RECURSIVE firstSweep(_, _, _)
firstSweep(first_for, prods, i) ==
    IF i > Len(prods) THEN first_for
    ELSE LET image == prods[i].lhs.image
         IN firstSweep(Put(first_for, image,
                           Get(first_for, image) \cup first(first_for, prods[i].rhs)),
                       prods, i + 1)

RECURSIVE firstFix(_, _)
firstFix(first_for, prods) ==
    LET swept == firstSweep(first_for, prods, 1)
    IN IF swept = first_for THEN first_for ELSE firstFix(swept, prods)

calculate_first(symbols, start, productions) ==
    LET seeded == [image \in ImagesOf(symbols, start, productions) |->
                     {s \in symbols : IsTerminal(s) /\ s.image = image}
                       \cup (IF \E p \in productions :
                                  /\ Len(p.rhs) = 1
                                  /\ p.rhs[1] = EPSILONG
                                  /\ p.lhs.image = image
                             THEN {EPSILONG} ELSE {})]
    IN firstFix(seeded, Enum(productions))

\* one position i of one production in the FOLLOW loop
followAt(first_for, follow_for, p, i) ==
    LET symbol == p.rhs[i]
        next_first == first(first_for, SubSeqFrom(p.rhs, i + 1))
        added == Get(follow_for, symbol.image) \cup (next_first \ {EPSILONG})
    IN IF IsTerminal(symbol) THEN follow_for
       ELSE Put(follow_for, symbol.image,
                IF EPSILONG \in next_first \/ i = Len(p.rhs)
                THEN added \cup Get(Put(follow_for, symbol.image, added), p.lhs.image)
                ELSE added)

RECURSIVE followSweep(_, _, _, _)
followSweep(first_for, follow_for, prods, n) ==
    \* n is the position in the right-hand side of the first production of prods
    IF prods = <<>> THEN follow_for
    ELSE IF n > Len(Head(prods).rhs)
         THEN followSweep(first_for, follow_for, Tail(prods), 1)
         ELSE followSweep(first_for,
                          followAt(first_for, follow_for, Head(prods), n),
                          prods, n + 1)

RECURSIVE followFix(_, _, _)
followFix(first_for, follow_for, prods) ==
    LET swept == followSweep(first_for, follow_for, prods, 1)
    IN IF swept = follow_for THEN follow_for ELSE followFix(first_for, swept, prods)

calculate_follow(symbols, start, productions, first_for) ==
    LET seeded == [image \in ImagesOf(symbols, start, productions) |->
                     IF image = start.image THEN {EOF} ELSE {}]
    IN followFix(first_for, seeded, Enum(productions))

\* Grammar(symbols, start, productions) with its __post_init__
Grammar(symbols, start, productions) ==
    LET ff == calculate_first(symbols, start, productions)
    IN [symbols |-> symbols, start |-> start, productions |-> productions,
        first_for |-> ff,
        follow_for |-> calculate_follow(symbols, start, productions, ff)]

----------------------------------------------------------------------------
(* grammar.py: Grammar.remove_direct_left_recursion *)

\* `str == Symbol`: a str never equals a Symbol dataclass instance
PyStrEqSymbol(image, symbol) == FALSE

\* `new_image in self.symbols`
StrInSymbols(image, symbols) == \E s \in symbols : PyStrEqSymbol(image, s)

RECURSIVE fresh_image(_, _)
fresh_image(new_image, symbols) ==
    IF StrInSymbols(new_image, symbols)
    THEN fresh_image(new_image \o "'", symbols)
    ELSE new_image

\* the productions with production.rhs and production.lhs == production.rhs[0]
IsLeftRecursive(p) == Len(p.rhs) > 0 /\ p.lhs = p.rhs[1]

\* the inner loop `for production in productionByLhs[lr_production.lhs]`;
\* set.remove of a missing production raises KeyError
RECURSIVE rdlrInner(_, _, _, _, _)
rdlrInner(st, byLhs, i, lhs, new_lhs) ==
    IF i > Len(byLhs) \/ st.err # "" THEN st
    ELSE LET production == byLhs[i]
         IN IF production \notin st.productions
            THEN [st EXCEPT !.err = "KeyError"]
            ELSE rdlrInner(
                   [st EXCEPT !.productions =
                       (@ \ {production})
                         \cup {Production(lhs, production.rhs \o <<new_lhs>>)}],
                   byLhs, i + 1, lhs, new_lhs)

\* one iteration of `for lr_production in left_recursions`
rdlrOne(st, lr_production, byLhs) ==
    IF lr_production \notin st.productions THEN [st EXCEPT !.err = "KeyError"]
    ELSE LET new_image == fresh_image(lr_production.lhs.image \o "'", st.symbols)
             new_lhs == NonTerminal(new_image)
             st1 == [st EXCEPT
                       !.symbols = @ \cup {new_lhs},
                       !.fresh = @ \cup {new_lhs},
                       !.productions =
                          (@ \ {lr_production})
                            \cup {Production(new_lhs,
                                             SubSeqFrom(lr_production.rhs, 2) \o <<new_lhs>>),
                                  Production(new_lhs, <<EPSILONG>>)}]
         IN rdlrInner(st1, byLhs, 1, lr_production.lhs, new_lhs)

RECURSIVE rdlrLoop(_, _, _, _)
rdlrLoop(st, left_recursions, i, all) ==
    IF i > Len(left_recursions) \/ st.err # "" THEN st
    ELSE rdlrLoop(
           rdlrOne(st, left_recursions[i],
                   SelectSeq(all, LAMBDA q :
                       ~IsLeftRecursive(q) /\ q.lhs = left_recursions[i].lhs)),
           left_recursions, i + 1, all)

\* grammar: the Grammar object after the call; err: the exception that ended the
\* call, if any; fresh: the nonterminals it introduced.  FIRST/FOLLOW are
\* recomputed only when the rewriting loop ran to its end.
remove_direct_left_recursion(g, ord) ==
    LET all == Iter(ord, g.productions)
        st == rdlrLoop([symbols |-> g.symbols, productions |-> g.productions,
                        err |-> "", fresh |-> {}],
                       SelectSeq(all, IsLeftRecursive), 1, all)
        ff == calculate_first(st.symbols, g.start, st.productions)
    IN [grammar |->
          IF st.err # ""
          THEN [g EXCEPT !.symbols = st.symbols, !.productions = st.productions]
          ELSE [symbols |-> st.symbols, start |-> g.start,
                productions |-> st.productions, first_for |-> ff,
                follow_for |-> calculate_follow(st.symbols, g.start, st.productions, ff)],
        err |-> st.err, fresh |-> st.fresh]

----------------------------------------------------------------------------
(* bnf.py: the grammar the reader builds from a list of rules *)

SymbolsOf(rules) ==
    UNION {{rules[i].lhs} \cup Range(rules[i].rhs) : i \in DOMAIN rules}

bnf_parse(rules) == Grammar(SymbolsOf(rules), rules[1].lhs, Range(rules))

N(image) == NonTerminal(image)

T(image) == Terminal(image)

\* main.py: the expression grammar
ExprRules ==
    << Production(N("E"), <<N("E"), T("+"), N("T")>>),
       Production(N("E"), <<N("T")>>),
       Production(N("T"), <<N("T"), T("*"), N("F")>>),
       Production(N("T"), <<N("F")>>),
       Production(N("F"), <<T("("), N("E"), T(")")>>),
       Production(N("F"), <<T("n")>>) >>


----------------------------------------------------------------------------
(* parsers.py: LL1Parser *)

\* index_by_production[production]: indices count from 0
IndexOf(productions, production) ==
    (CHOOSE i \in DOMAIN productions : productions[i] = production) - 1

\* llAssign without the `if terminal in self.parse_table[...]: raise`
RECURSIVE llAssignOverwriting(_, _, _, _)
llAssignOverwriting(st, lhs, terms, index) ==
    IF terms = <<>> THEN st
    ELSE llAssignOverwriting([st EXCEPT !.table = Put(@, <<lhs, Head(terms)>>, index)],
                             lhs, Tail(terms), index)

\* the assignments table[lhs][terminal] = index for the terminals of terms, in
\* order; a cell that already holds an entry raises RuntimeError
RECURSIVE llAssign(_, _, _, _)
llAssign(st, lhs, terms, index) ==
    IF terms = <<>> \/ st.err # "" THEN st
    ELSE IF <<lhs, Head(terms)>> \in DOMAIN st.table
         THEN [st EXCEPT !.err = "RuntimeError"]
         ELSE llAssign([st EXCEPT !.table = Put(@, <<lhs, Head(terms)>>, index)],
                       lhs, Tail(terms), index)

RECURSIVE llBuild(_, _, _, _, _)
llBuild(st, g, productions, i, ord) ==
    IF i > Len(productions) \/ st.err # "" THEN st
    ELSE LET production == productions[i]
             fst == first(g.first_for, production.rhs)
             byFirst == llAssign(st, production.lhs, Iter(ord, fst \ {EPSILONG}), i - 1)
             byFollow ==
                 IF EPSILONG \in fst
                 THEN llAssign(byFirst, production.lhs,
                               Iter(ord, Get(g.follow_for, production.lhs.image)), i - 1)
                 ELSE byFirst
         IN llBuild(byFollow, g, productions, i + 1, ord)

\* LL1Parser.build_parsing_table: [table, err]
ll_build_parsing_table(g, productions, ord) ==
    llBuild([table |-> <<>>, err |-> ""], g, productions, 1, ord)

\* LL1Parser.__init__
LL1Parser(g, ord) ==
    LET rw == remove_direct_left_recursion(g, ord)
        productions == Iter(ord, rw.grammar.productions)
        built == ll_build_parsing_table(rw.grammar, productions, ord)
    IN IF rw.err # ""
       THEN [rw |-> rw, status |-> rw.err, productions |-> <<>>, parse_table |-> <<>>]
       ELSE [rw |-> rw,
             status |-> IF built.err # "" THEN built.err ELSE "built",
             productions |-> productions,
             parse_table |-> built.table]

\* the symbols pushed for a production: reversed(rhs) without EPSILONG, as the
\* list they extend the stack by (top of the stack is the end of the list)
PushRhs(rhs) == SelectSeq(Reverse(rhs), LAMBDA s : s # EPSILONG)

\* the state of a run before its loop: `sym = next(token_iter)` has been taken
ll_parse_start(start, toks) ==
    [parser |-> "LL1", pos |-> 1, sym |-> toks[1], stack |-> <<EOF, start>>,
     result |-> <<>>, reported |-> 0, outcome |-> "running", seen |-> {}]

\* one iteration of the `while True` of LL1Parser.parse
ll_parse_step(parser, toks, r) ==
    IF r.stack = <<>> THEN [r EXCEPT !.outcome = "IndexError"]
    ELSE
    LET top == r.stack[Len(r.stack)]
        stack == SubSeq(r.stack, 1, Len(r.stack) - 1)
    IN IF top = r.sym /\ r.sym = EOF
       THEN [r EXCEPT !.stack = stack, !.outcome = "return"]
       ELSE IF IsTerminal(top)
       THEN LET rep == IF top # r.sym THEN r.reported + 1 ELSE r.reported
            IN IF r.pos + 1 > Len(toks)
               THEN [r EXCEPT !.stack = stack, !.reported = rep,
                              !.outcome = "StopIteration"]
               ELSE [r EXCEPT !.stack = stack, !.reported = rep,
                              !.pos = @ + 1, !.sym = toks[r.pos + 1]]
       ELSE IF <<top, r.sym>> \notin DOMAIN parser.parse_table
       THEN [r EXCEPT !.stack = stack, !.reported = @ + 1]
       ELSE LET production == parser.productions[parser.parse_table[<<top, r.sym>>] + 1]
            IN [r EXCEPT !.stack = stack \o PushRhs(production.rhs),
                         !.result = Append(@, production)]


----------------------------------------------------------------------------
(* parsers.py: LR1Parser *)

Accept == [type |-> "Accept"]

Shift(target) == [type |-> "Shift", target |-> target]

Reduce(target) == [type |-> "Reduce", target |-> target]

\* a state index on the parse stack (the other entries are symbols)
StateEntry(index) == [state |-> index]

augment_grammar(g) ==
    LET start == NonTerminal(g.start.image \o "'")
        p == Production(start, <<g.start>>)
        kernel == LRProduction(p.lhs, p.rhs, EOF, 0)
    IN [grammar |-> Grammar(g.symbols \cup {start}, start, {p} \cup g.productions),
        kernel |-> kernel,
        accepting_item |-> get_next(kernel)]

production_by_lhs(g, lhs) == {p \in g.productions : p.lhs = lhs}

\* the items one pass of the closure loop adds
closureAdd(g, items) ==
    UNION {{LRProduction(p.lhs, p.rhs, lookahead, 0) :
                p \in production_by_lhs(g, current_symbol(item)),
                lookahead \in first(g.first_for,
                                    get_beta(item) \o <<item.lookahead>>)} :
           item \in {i \in items : IsNonTerminal(current_symbol(i))}}

RECURSIVE closure(_, _)
closure(g, items) ==
    LET result == items \cup closureAdd(g, items)
    IN IF result = items THEN items ELSE closure(g, result)

goto(g, items, symbol) ==
    closure(g, {get_next(p) :
                    p \in {q \in items : current_symbol(q) = symbol /\ ~is_finished(q)}}
                \ {None})

\* LR1Parser.__init__ up to the `while unvisited` of calculate_canonical_collection
LR1Parser(g, ord) ==
    LET aug == augment_grammar(g)
        state == closure(aug.grammar, {aug.kernel})
    IN [status |-> "cc",
        given |-> g,
        grammar |-> aug.grammar,
        kernel |-> aug.kernel,
        accepting_item |-> aug.accepting_item,
        productions |-> Iter(ord, aug.grammar.productions),
        cc |-> Put(<<>>, state, 0),
        unvisited |-> {state},
        state_children |-> <<>>,
        symbol_by_state |-> <<>>,
        written |-> <<>>,
        action_table |-> <<>>,
        goto_table |-> <<>>]

\* the body of `for sym in syms` for the symbols of syms, in order
RECURSIVE ccVisit(_, _, _)
ccVisit(l, state, syms) ==
    IF syms = <<>> THEN l
    ELSE LET sym == Head(syms)
             new_state == goto(l.grammar, state, sym)
             isNew == new_state \notin DOMAIN l.cc
             cc == IF isNew THEN Put(l.cc, new_state, Cardinality(DOMAIN l.cc))
                   ELSE l.cc
             from == cc[state]
         IN ccVisit([l EXCEPT
                       !.cc = cc,
                       !.unvisited = IF isNew THEN @ \cup {new_state} ELSE @,
                       !.state_children =
                           Put(@, <<from, sym>>, Get(@, <<from, sym>>) \cup {cc[new_state]}),
                       !.symbol_by_state = Put(@, from, Get(@, from) \cup {sym})],
                    state, Tail(syms))

\* syms of one state: the current symbols of its items, None discarded
SymsOf(state) == {current_symbol(item) : item \in state} \ {None}

\* the states unvisited.pop() may return under the order ord
PopChoices(l, ord) ==
    IF ord = "any" THEN l.unvisited
    ELSE {s \in l.unvisited :
             \A t \in l.unvisited :
                 IF ord = "asc" THEN l.cc[s] <= l.cc[t] ELSE l.cc[s] >= l.cc[t]}

\* the orders `for sym in syms` may run in under the order ord
SymOrders(syms, ord) == IF ord = "any" THEN Perms(syms) ELSE {Iter(ord, syms)}

\* what the first loop of build_parsing_table writes to action_table[index][terminal]
ItemWrites(l, state, terminal) ==
    {Accept : item \in {i \in state : i = l.accepting_item /\ terminal = EOF}}
      \cup {Reduce(IndexOf(l.productions, p_of(item))) :
               item \in {i \in state : /\ i # l.accepting_item
                                       /\ is_finished(i)
                                       /\ i.lookahead = terminal}}

\* what the second loop writes to it
EdgeWrites(l, index, terminal) ==
    {Shift(child_index) : child_index \in Get(l.state_children, <<index, terminal>>)}

\* the (state index, terminal) cells the builder writes to
ActionCells(l) ==
    UNION {{<<l.cc[state], t>> :
               t \in {t \in {s \in Get(l.symbol_by_state, l.cc[state]) : IsTerminal(s)}
                              \cup {i.lookahead : i \in state} :
                          ItemWrites(l, state, t) \cup EdgeWrites(l, l.cc[state], t) # {}}} :
           state \in DOMAIN l.cc}

StateOf(l, index) == CHOOSE state \in DOMAIN l.cc : l.cc[state] = index

\* every value written to a cell, in any order
Written(l) ==
    [cell \in ActionCells(l) |->
        ItemWrites(l, StateOf(l, cell[1]), cell[2]) \cup EdgeWrites(l, cell[1], cell[2])]

\* the values a cell may hold in the end: the edges are written after the items
LastWritten(l) ==
    [cell \in ActionCells(l) |->
        IF EdgeWrites(l, cell[1], cell[2]) # {}
        THEN EdgeWrites(l, cell[1], cell[2])
        ELSE ItemWrites(l, StateOf(l, cell[1]), cell[2])]

\* the goto table filled for the terminals instead of the nonterminals
GotoCellsOfTerminals(l) ==
    {cell \in DOMAIN l.state_children : IsTerminal(cell[2])}

\* the (state index, nonterminal) cells of goto_table
GotoCells(l) ==
    {cell \in DOMAIN l.state_children : IsNonTerminal(cell[2])}

\* every table that takes one of the offered values in each cell
RECURSIVE TablesOver(_, _)
TablesOver(offered, cells) ==
    IF cells = <<>> THEN {<<>>}
    ELSE {Put(table, Head(cells), value) :
              table \in TablesOver(offered, Tail(cells)),
              value \in offered[Head(cells)]}

\* the loops of LR1Parser.build_parsing_table over the finished collection
lr_build_parsing_table(l) ==
    {[l EXCEPT !.status = "built",
               !.written = Written(l),
               !.action_table = action_table,
               !.goto_table = goto_table] :
        action_table \in TablesOver(LastWritten(l), Enum(ActionCells(l))),
        goto_table \in TablesOver([cell \in GotoCells(l) |-> l.state_children[cell]],
                                  Enum(GotoCells(l)))}

lr_parse_start(toks) ==
    [parser |-> "LR1", pos |-> 1, sym |-> toks[1], stack |-> <<StateEntry(0)>>,
     result |-> <<>>, reported |-> 0, outcome |-> "running", seen |-> {}]

\* the state index on top of the stack, or None when the top is a symbol
TopState(stack) ==
    IF "state" \in DOMAIN stack[Len(stack)] THEN stack[Len(stack)].state ELSE None

\* one iteration of the `while True` of LR1Parser.parse
lr_parse_step(parser, toks, r) ==
    IF <<TopState(r.stack), r.sym>> \notin DOMAIN parser.action_table
    THEN [r EXCEPT !.outcome = "KeyError"]
    ELSE
    LET action == parser.action_table[<<TopState(r.stack), r.sym>>]
        result == Append(r.result, action)
    IN CASE action.type = "Shift" ->
              LET stack == r.stack \o <<r.sym, StateEntry(action.target)>>
              IN IF r.pos + 1 > Len(toks)
                 THEN [r EXCEPT !.result = result, !.stack = stack,
                                !.outcome = "StopIteration"]
                 ELSE [r EXCEPT !.result = result, !.stack = stack,
                                !.pos = @ + 1, !.sym = toks[r.pos + 1]]
         [] action.type = "Reduce" ->
              LET production == parser.productions[action.target + 1]
                  n == 2 * Len(production.rhs)
                  popped == SubSeq(r.stack, 1, Len(r.stack) - n)
              IN IF n >= Len(r.stack)
                 THEN [r EXCEPT !.result = result, !.stack = <<>>,
                                !.outcome = "IndexError"]
                 ELSE IF <<TopState(popped), production.lhs>>
                           \notin DOMAIN parser.goto_table
                 THEN [r EXCEPT !.result = result, !.stack = popped,
                                !.outcome = "KeyError"]
                 ELSE [r EXCEPT
                         !.result = result,
                         !.stack = popped \o
                            <<production.lhs,
                              StateEntry(parser.goto_table[
                                  <<TopState(popped), production.lhs>>])>>]
         [] action.type = "Accept" ->
              [r EXCEPT !.result = result, !.outcome = "return"]
         [] OTHER -> [r EXCEPT !.result = result, !.outcome = "RuntimeError"]

----------------------------------------------------------------------------
(* The grammars and token streams the scripts are run on *)

\* Scenario 3: one left-recursive production
LeftRules ==
    << Production(N("T"), <<N("T"), T("*"), N("F")>>),
       Production(N("T"), <<N("F")>>),
       Production(N("F"), <<T("n")>>) >>

\* two left-recursive productions of one nonterminal
Left2Rules ==
    << Production(N("E"), <<N("E"), T("+"), T("n")>>),
       Production(N("E"), <<N("E"), T("*"), T("n")>>),
       Production(N("E"), <<T("n")>>) >>

\* a grammar that already has a nonterminal E'
PrimedRules ==
    << Production(N("E"), <<N("E"), T("+"), N("E'")>>),
       Production(N("E"), <<N("E'")>>),
       Production(N("E'"), <<T("n")>>) >>

\* ambiguous: a shift/reduce conflict
AmbRules ==
    << Production(N("S"), <<N("S"), T("+"), N("S")>>),
       Production(N("S"), <<T("n")>>) >>

\* ambiguous: a reduce/reduce conflict
RRRules ==
    << Production(N("S"), <<N("A")>>),
       Production(N("S"), <<N("B")>>),
       Production(N("A"), <<T("a")>>),
       Production(N("B"), <<T("a")>>) >>

\* a cycle of unit productions
CycleRules ==
    << Production(N("A"), <<N("B")>>),
       Production(N("A"), <<T("a")>>),
       Production(N("B"), <<N("A")>>) >>

\* a terminal and a nonterminal with the same image
ClashRules ==
    << Production(N("S"), <<T("a"), T("S")>>) >>

\* an EPSILONG production (`<S> ::=;`)
EpsRules ==
    << Production(N("S"), <<T("a"), N("S")>>),
       Production(N("S"), <<EPSILONG>>) >>

\* Scenario 5: two productions with the same FIRST set
LLAmbRules ==
    << Production(N("S"), <<T("a"), T("b")>>),
       Production(N("S"), <<T("a"), T("c")>>) >>

SmallRules ==
    {LeftRules, Left2Rules, PrimedRules, AmbRules, RRRules, CycleRules,
     ClashRules, EpsRules, LLAmbRules}

AnyOrderRules ==
    {Left2Rules, RRRules, CycleRules, ClashRules, EpsRules, LLAmbRules}

\* the terminals scanner.scan can yield for a grammar, EOF aside
Alphabet(g) == {s \in g.symbols : IsTerminal(s)} \ {EPSILONG, EOF}

\* the token streams of at most n terminals
TokenStreams(alphabet, n) ==
    UNION {[1..k -> alphabet] : k \in 0..n}

\* the position of the rightmost nonterminal of a sentential form, or 0
RECURSIVE RightmostNonTerminal(_, _)
RightmostNonTerminal(f, i) ==
    IF i = 0 THEN 0
    ELSE IF IsNonTerminal(f[i]) THEN i ELSE RightmostNonTerminal(f, i - 1)

\* the right-hand side as the string it derives: EPSILONG is the empty string
Strip(rhs) == SelectSeq(rhs, LAMBDA s : s # EPSILONG)

----------------------------------------------------------------------------
(* The state machine *)

NoCall == [called |-> FALSE]

NoParser == [status |-> "none"]

NoRun == [parser |-> "none", outcome |-> "none"]

InitOn(rulesets, orders) ==
    /\ \E rules \in rulesets : grammar = bnf_parse(rules)
    /\ rewrite = NoCall
    /\ hashOrder \in orders
    /\ pc = "grammar"
    /\ ll = NoParser
    /\ lr = NoParser
    /\ form = <<>>
    /\ tokens = <<>>
    /\ run = NoRun

\* every visiting order of the worklist is followed for the grammars whose
\* collection stays small
Init ==
    \/ InitOn(SmallRules, {"asc", "desc"})
    \/ InitOn(AnyOrderRules, {"any"})

InitExpr == InitOn({ExprRules}, {"asc", "desc"})

\* the script calls grammar.remove_direct_left_recursion()
RemoveDirectLeftRecursion ==
    /\ pc = "grammar"
    /\ ~rewrite.called
    /\ LET rw == remove_direct_left_recursion(grammar, hashOrder)
       IN /\ grammar' = rw.grammar
          /\ rewrite' = [called |-> TRUE, err |-> rw.err, fresh |-> rw.fresh,
                         before |-> grammar]
          /\ pc' = IF rw.err # "" THEN "crashed" ELSE "grammar"
    /\ UNCHANGED <<hashOrder, ll, lr, form, tokens, run>>

\* the script calls LL1Parser(grammar)
ConstructLL1 ==
    /\ pc = "grammar"
    /\ LET parser == LL1Parser(grammar, hashOrder)
       IN /\ ll' = [status |-> parser.status, productions |-> parser.productions,
                    parse_table |-> parser.parse_table]
          /\ grammar' = parser.rw.grammar
          /\ rewrite' = [called |-> TRUE, err |-> parser.rw.err,
                         fresh |-> parser.rw.fresh, before |-> grammar]
          /\ pc' = IF parser.status = "built" THEN "input" ELSE "crashed"
          /\ form' = <<grammar.start>>
    /\ UNCHANGED <<hashOrder, lr, tokens, run>>

\* the script calls LR1Parser(grammar): the constructor up to the worklist loop
ConstructLR1 ==
    /\ pc = "grammar"
    /\ lr' = LR1Parser(grammar, hashOrder)
    /\ pc' = "cc"
    /\ UNCHANGED <<grammar, rewrite, hashOrder, ll, form, tokens, run>>

\* one iteration of `while unvisited` in calculate_canonical_collection
CanonicalCollectionStep ==
    /\ pc = "cc"
    /\ lr.unvisited # {}
    /\ \E state \in PopChoices(lr, hashOrder) :
         \E syms \in SymOrders(SymsOf(state), hashOrder) :
            lr' = ccVisit([lr EXCEPT !.unvisited = @ \ {state}], state, syms)
    /\ UNCHANGED <<grammar, rewrite, hashOrder, pc, ll, form, tokens, run>>

\* the worklist is empty: the table loops of build_parsing_table, and the
\* constructor returns
BuildParsingTable ==
    /\ pc = "cc"
    /\ lr.unvisited = {}
    /\ lr' \in lr_build_parsing_table(lr)
    /\ pc' = "input"
    /\ form' = <<grammar.start>>
    /\ UNCHANGED <<grammar, rewrite, hashOrder, ll, tokens, run>>

\* the input is written: one step of a rightmost derivation from the start symbol
Derive ==
    /\ pc = "input"
    /\ LET i == RightmostNonTerminal(form, Len(form))
       IN /\ i > 0
          /\ \E p \in grammar.productions :
                /\ p.lhs = form[i]
                /\ Len(form) - 1 + Len(Strip(p.rhs)) <= MaxFormLen
                /\ form' = SubSeq(form, 1, i - 1) \o Strip(p.rhs) \o SubSeqFrom(form, i + 1)
    /\ UNCHANGED <<grammar, rewrite, hashOrder, pc, ll, lr, tokens, run>>

StartRun(toks, derived) ==
    /\ tokens' = toks
    /\ run' = (IF ll.status = "built"
               THEN ll_parse_start(grammar.start, toks)
               ELSE lr_parse_start(toks)) @@ [derived |-> derived]
    /\ pc' = "parse"
    /\ UNCHANGED <<grammar, rewrite, hashOrder, ll, lr, form>>

\* scanner.scan of the derived sentence, and parser.parse(tokens) up to its loop
ScanSentence ==
    /\ pc = "input"
    /\ RightmostNonTerminal(form, Len(form)) = 0
    /\ StartRun(form \o <<EOF>>, TRUE)

\* scanner.scan of any text, and parser.parse(tokens) up to its loop
ScanText ==
    /\ pc = "input"
    /\ form = <<grammar.start>>
    /\ \E w \in TokenStreams(Alphabet(grammar), MaxTokens) :
          StartRun(w \o <<EOF>>, FALSE)

\* the configuration of a run at the head of its loop
Config(r) == <<r.stack, r.pos>>

\* a run that comes back to a configuration it has been in never ends
Stepped(r, next) ==
    IF next.outcome = "running" /\ Config(next) \in r.seen \cup {Config(r)}
    THEN [next EXCEPT !.outcome = "diverges"]
    ELSE [next EXCEPT !.seen = @ \cup {Config(r)}]

LL1ParseStep ==
    /\ pc = "parse"
    /\ run.parser = "LL1"
    /\ run' = Stepped(run, ll_parse_step(ll, tokens, run))
    /\ pc' = IF run'.outcome = "running" THEN "parse" ELSE "done"
    /\ UNCHANGED <<grammar, rewrite, hashOrder, ll, lr, form, tokens>>

LR1ParseStep ==
    /\ pc = "parse"
    /\ run.parser = "LR1"
    /\ run' = Stepped(run, lr_parse_step(lr, tokens, run))
    /\ pc' = IF run'.outcome = "running" THEN "parse" ELSE "done"
    /\ UNCHANGED <<grammar, rewrite, hashOrder, ll, lr, form, tokens>>

Next ==
    \/ RemoveDirectLeftRecursion
    \/ ConstructLL1
    \/ ConstructLR1
    \/ CanonicalCollectionStep
    \/ BuildParsingTable
    \/ Derive
    \/ ScanSentence
    \/ ScanText
    \/ LL1ParseStep
    \/ LR1ParseStep

Spec == Init /\ [][Next]_vars

SpecExpr == InitExpr /\ [][Next]_vars

----------------------------------------------------------------------------
(* Properties *)

NonTerminalsOf(g) ==
    {s \in g.symbols : IsNonTerminal(s)} \cup {p.lhs : p \in g.productions}

TerminalsOf(g) ==
    {s \in g.symbols : IsTerminal(s)}
      \cup UNION {{s \in Range(p.rhs) : IsTerminal(s)} : p \in g.productions}

\* C1 -------------------------------------------------------------------

\* C1: a built LR(1) table has no action cell to which two different actions
\* were written: a conflict ends construction with an error instead.
C1_NoSilentOverwrite ==
    lr.status = "built" =>
        \A cell \in DOMAIN lr.written : Cardinality(lr.written[cell]) <= 1

\* C2 -------------------------------------------------------------------

\* the assignments build_parsing_table makes to table[X][t]: a production
\* assigns through FIRST, through FOLLOW, or both
LLAssignments(g, X, t) ==
    {<<p, "first">> : p \in {q \in g.productions :
            q.lhs = X /\ t \in first(g.first_for, q.rhs) \ {EPSILONG}}}
      \cup {<<p, "follow">> : p \in {q \in g.productions :
            /\ q.lhs = X
            /\ EPSILONG \in first(g.first_for, q.rhs)
            /\ t \in Get(g.follow_for, X.image)}}

LLClaimants(g, X, t) == {a[1] : a \in LLAssignments(g, X, t)}

LLTerminals(g) ==
    UNION {g.first_for[i] : i \in DOMAIN g.first_for}
      \cup UNION {g.follow_for[i] : i \in DOMAIN g.follow_for}

\* C2: LL1Parser.build_parsing_table raises exactly when some cell would be
\* assigned twice; in a built table every cell (X, t) has at most one claiming
\* production, holds the index of that production, and is empty without one.
C2_LLTableUnambiguous ==
    LET g == grammar
    IN /\ ll.status \in {"built", "RuntimeError"} =>
            (ll.status = "RuntimeError" <=>
                \E X \in NonTerminalsOf(g), t \in LLTerminals(g) :
                    Cardinality(LLAssignments(g, X, t)) >= 2)
       /\ ll.status = "built" =>
            \A X \in NonTerminalsOf(g), t \in LLTerminals(g) :
                /\ Cardinality(LLClaimants(g, X, t)) <= 1
                /\ LLClaimants(g, X, t) = {} <=> <<X, t>> \notin DOMAIN ll.parse_table
                /\ LLClaimants(g, X, t) # {} =>
                       ll.productions[ll.parse_table[<<X, t>>] + 1] \in LLClaimants(g, X, t)

\* two different productions claim one cell and construction raised
C2_Witness ==
    /\ ll.status = "RuntimeError"
    /\ \E X \in NonTerminalsOf(grammar), t \in LLTerminals(grammar) :
           Cardinality(LLClaimants(grammar, X, t)) >= 2

\* C3 -------------------------------------------------------------------

\* the productions of the Reduce actions of a trace, last reduction first
ReducedProductions(l, result) ==
    LET reduces == Reverse(SelectSeq(result, LAMBDA a : a.type = "Reduce"))
    IN [i \in DOMAIN reduces |-> l.productions[reduces[i].target + 1]]

\* the sentential form reached from f by expanding the rightmost nonterminal
\* with each production in turn; <<None>> when one does not apply
RECURSIVE Replay(_, _)
Replay(f, prods) ==
    IF prods = <<>> THEN f
    ELSE LET i == RightmostNonTerminal(f, Len(f))
         IN IF i = 0 \/ f[i] # Head(prods).lhs THEN <<None>>
            ELSE Replay(SubSeq(f, 1, i - 1) \o Strip(Head(prods).rhs)
                            \o SubSeqFrom(f, i + 1),
                        Tail(prods))

ConflictFree(l) ==
    \A cell \in DOMAIN l.written : Cardinality(l.written[cell]) = 1

\* C3: for the expression grammar, as written and after
\* remove_direct_left_recursion, LR1Parser.parse of every derived sentence
\* followed by EOF returns a trace that ends in Accept and whose Reduce
\* actions, reversed, are a rightmost derivation of the sentence.
C3_AcceptsEverySentence ==
    (pc = "done" /\ run.parser = "LR1" /\ run.derived /\ ConflictFree(lr)) =>
        /\ run.outcome = "return"
        /\ run.result[Len(run.result)] = Accept
        /\ Replay(<<grammar.start>>, ReducedProductions(lr, run.result))
               = SubSeq(tokens, 1, Len(tokens) - 1)

\* C4 -------------------------------------------------------------------

HeadedBy(productions, X) == {p \in productions : p.lhs = X}

LeftRecursiveHeads(g) == {p.lhs : p \in {q \in g.productions : IsLeftRecursive(q)}}

\* C4: a call of remove_direct_left_recursion ends without error; every
\* nonterminal X with left-recursive productions X ::= X a_i and others
\* X ::= b_j ends with exactly X ::= b_j X', and one fresh X' with exactly
\* X' ::= a_i X' and X' ::= EPSILONG; the other nonterminals keep their
\* productions.
C4_LeftRecursionRemoved ==
    rewrite.called =>
        LET old == rewrite.before.productions
        IN /\ rewrite.err = ""
           /\ \A X \in LeftRecursiveHeads(rewrite.before) :
                 \E X2 \in rewrite.fresh :
                    /\ HeadedBy(grammar.productions, X) =
                         {Production(X, p.rhs \o <<X2>>) :
                             p \in {q \in HeadedBy(old, X) : ~IsLeftRecursive(q)}}
                    /\ HeadedBy(grammar.productions, X2) =
                         {Production(X2, SubSeqFrom(p.rhs, 2) \o <<X2>>) :
                             p \in {q \in HeadedBy(old, X) : IsLeftRecursive(q)}}
                           \cup {Production(X2, <<EPSILONG>>)}
           /\ \A X \in NonTerminalsOf(rewrite.before) \ LeftRecursiveHeads(rewrite.before) :
                 HeadedBy(grammar.productions, X) = HeadedBy(old, X)

\* C5 -------------------------------------------------------------------

\* C5: the nonterminals remove_direct_left_recursion introduces have images
\* that no symbol of the grammar had before the call.
C5_FreshNonTerminal ==
    rewrite.called =>
        \A new_lhs \in rewrite.fresh :
            \A s \in rewrite.before.symbols : s.image # new_lhs.image

\* C6 -------------------------------------------------------------------

\* C6: the start symbol of the augmented grammar is not a symbol of the
\* grammar given to LR1Parser, heads the production S' ::= S only, and is in
\* no right-hand side.
C6_FreshStart ==
    lr.status # "none" =>
        LET S2 == lr.grammar.start
        IN /\ S2 \notin lr.given.symbols
           /\ HeadedBy(lr.grammar.productions, S2) = {Production(S2, <<lr.given.start>>)}
           /\ \A p \in lr.grammar.productions : S2 \notin Range(p.rhs)

\* C7 -------------------------------------------------------------------

\* calculate_canonical_collection run to its end along Enum
RECURSIVE ReferenceRun(_)
ReferenceRun(l) ==
    IF l.unvisited = {} THEN l
    ELSE LET state == CHOOSE s \in PopChoices(l, "asc") : TRUE
         IN ReferenceRun(ccVisit([l EXCEPT !.unvisited = @ \ {state}],
                                 state, Iter("asc", SymsOf(state))))

\* C7: every run of calculate_canonical_collection on a grammar ends with the
\* mapping from item set to state index that the run along Enum ends with;
\* the indices are 0..n-1, index 0 is closure({kernel}), and the item sets of
\* two indices differ.
C7_Deterministic ==
    (pc = "cc" /\ lr.unvisited = {}) =>
        /\ lr.cc = ReferenceRun(LR1Parser(lr.given, "asc")).cc
        /\ {lr.cc[state] : state \in DOMAIN lr.cc} = 0..(Cardinality(DOMAIN lr.cc) - 1)
        /\ lr.cc[closure(lr.grammar, {lr.kernel})] = 0
        /\ \A s, t \in DOMAIN lr.cc : lr.cc[s] = lr.cc[t] => s = t

\* C8 -------------------------------------------------------------------

\* C8: no run of LR1Parser.parse comes back to a configuration (stack and
\* input position) it has been in: every run returns or raises.
C8_ParseTerminates ==
    run.parser = "LR1" => run.outcome # "diverges"

\* C9 -------------------------------------------------------------------

\* the terminal can start no production of the start symbol
CannotStart(g, t) ==
    /\ t \notin Get(g.first_for, g.start.image) \ {EPSILONG}
    /\ t = EOF => EPSILONG \notin Get(g.first_for, g.start.image)

\* C9: a run whose first terminal cannot start a production of the start
\* symbol ends in an error raised at the first token, never in a returned
\* result.
C9_ErrorAtFirstToken ==
    (pc = "done" /\ CannotStart(grammar, tokens[1])) =>
        /\ run.outcome \notin {"return", "diverges"}
        /\ run.pos = 1

\* C10 ------------------------------------------------------------------

\* the sequences of at most two symbols whose FIRST holds EPSILONG
NullableSeqs(g) ==
    LET nullable == {s \in g.symbols : EPSILONG \in Get(g.first_for, s.image)}
    IN {<<>>} \cup {<<s>> : s \in nullable}
         \cup {<<s, u>> : s \in nullable, u \in nullable}

FirstOfTerminals(g, used) ==
    \A t \in used :
        /\ Get(g.first_for, t.image) = {t}
        /\ \A alpha \in NullableSeqs(g) : t \in first(g.first_for, alpha \o <<t>>)

\* C10: the FIRST entry of every terminal of the grammar is the terminal
\* alone, after construction, after remove_direct_left_recursion and, with EOF
\* (the lookahead of the kernel item), after augmentation; and
\* first(alpha + (t,)) holds t for every sequence alpha of nullable symbols.
C10_FirstOfTerminal ==
    /\ FirstOfTerminals(grammar, TerminalsOf(grammar))
    /\ lr.status # "none" =>
           FirstOfTerminals(lr.grammar, TerminalsOf(lr.grammar) \cup {EOF})

\* C11 ------------------------------------------------------------------

\* state indices at the even positions (from 0), state 0 at the bottom and a
\* state on top; grammar symbols at the odd positions
Alternating(stack, l) ==
    /\ Len(stack) % 2 = 1
    /\ stack[1] = StateEntry(0)
    /\ \A i \in 1..Len(stack) :
          IF i % 2 = 1
          THEN /\ DOMAIN stack[i] = {"state"}
               /\ stack[i].state \in {l.cc[state] : state \in DOMAIN l.cc}
          ELSE stack[i] \in l.grammar.symbols \cup {EOF}

\* the action the step has taken, or None when it found no entry
ActionTaken(before, after) ==
    IF Len(after.result) > Len(before.result)
    THEN after.result[Len(after.result)]
    ELSE None

ReduceStepOk(l, before, after, action) ==
    LET production == l.productions[action.target + 1]
        n == 2 * Len(production.rhs)
        kept == Len(before.stack) - n
    IN /\ Len(before.stack) >= n + 1
       /\ after.outcome \in {"running", "diverges"}
       /\ Len(after.stack) = kept + 2
       /\ SubSeq(after.stack, 1, kept) = SubSeq(before.stack, 1, kept)
       /\ <<before.stack[kept].state, production.lhs>> \in DOMAIN l.goto_table
       /\ after.stack[kept + 1] = production.lhs
       /\ after.stack[kept + 2] =
              StateEntry(l.goto_table[<<before.stack[kept].state, production.lhs>>])
       /\ after.pos = before.pos
       /\ after.sym = before.sym

ShiftStepOk(toks, before, after, action) ==
    /\ after.outcome \in {"running", "diverges"}
    /\ IsTerminal(toks[before.pos])
    /\ after.stack = before.stack \o <<toks[before.pos], StateEntry(action.target)>>
    /\ after.pos = before.pos + 1
    /\ after.sym = toks[after.pos]

C11_Step ==
    LR1ParseStep =>
        /\ Alternating(run.stack, lr)
        /\ Alternating(run'.stack, lr)
        /\ LET action == ActionTaken(run, run')
           IN /\ (action # None /\ action.type = "Reduce") =>
                     ReduceStepOk(lr, run, run', action)
              /\ (action # None /\ action.type = "Shift") =>
                     ShiftStepOk(tokens, run, run', action)

\* C11: in every configuration of LR1Parser.parse the stack has odd length,
\* state indices at the even positions (state 0 at the bottom, a state on
\* top) and grammar symbols at the odd positions; every Reduce(p) taken finds
\* at least 2*len(p)+1 entries, pops exactly 2*len(p) of them, finds the goto
\* entry for the exposed state and p.lhs, pushes p.lhs and that state, and
\* consumes no input; every Shift pushes the current terminal and its target
\* and consumes exactly that one terminal.
C11_StackDiscipline == [][C11_Step]_vars

\* a run has shifted, has reduced by a production of three symbols (six
\* entries popped) and has returned
C11_Witness ==
    /\ run.parser = "LR1"
    /\ run.outcome = "return"
    /\ \E i \in 1..Len(run.result) : run.result[i].type = "Shift"
    /\ \E i \in 1..Len(run.result) :
          /\ run.result[i].type = "Reduce"
          /\ Len(lr.productions[run.result[i].target + 1].rhs) = 3

====
